---- MODULE Spec2Model ----
(***************************************************************************)
(* A model of use_event_source_with_options (src/src/use_event_source.rs): *)
(* the signals it creates, the two atomics shared by its closures, the     *)
(* EventSource objects it has created and the set_timeout callbacks that   *)
(* are pending.  Every action is one task of the browser's event loop: a   *)
(* call of open() or close() by the user, the dispatch of one event of one *)
(* EventSource to the handler that init registered for it, or the firing   *)
(* of one pending timeout.                                                 *)
(*                                                                         *)
(* The EventSource objects follow the HTML standard: readyState is         *)
(* CONNECTING, OPEN or CLOSED; the task that announces the connection sets *)
(* OPEN and fires `open`; the task that re-establishes it sets CONNECTING  *)
(* and fires `error`; the task that fails it sets CLOSED and fires         *)
(* `error`; messages are dispatched while it is OPEN; every such task does *)
(* nothing once readyState is CLOSED, and close() sets CLOSED.             *)
(***************************************************************************)
EXTENDS Integers, Sequences, FiniteSets, TLC

\* ---------------------------------------------------------------- bounds
\* EventSource objects created in one behaviour (new transports stop there).
MaxSources == 4
\* reconnect_limit is drawn from 0..MaxLimit.
MaxLimit == 3

\* ------------------------------------------------- EventSource.readyState
CONNECTING == 0
OPEN == 1
CLOSED == 2

\* ----------------------------------------------------------------- values
\* Option<T>: None is the empty sequence, Some(x) the sequence <<x>>.
None == << >>
Some(x) == << x >>

\* Wire strings are sequences of characters.
Digits == {"2", "4"}
Payloads == { <<"4">>, <<"4", "2">>, <<"x">> }
\* What e.data().as_string() can give: None when the data is not a string.
DataStrings == {None} \cup {Some(p) : p \in Payloads}
\* The channel names a configuration may subscribe to.
EventNames == {"notice"}

DigitValue(c) == IF c = "2" THEN 2 ELSE 4

RECURSIVE ParseDigits(_, _)
ParseDigits(s, acc) ==
    IF s = << >> THEN acc
    ELSE ParseDigits(Tail(s), 10 * acc + DigitValue(Head(s)))

\* codec.decode for an integer codec: str::parse of the wire string.
decode(data_string) ==
    IF data_string # << >> /\ \A i \in 1..Len(data_string) : data_string[i] \in Digits
    THEN [ok |-> TRUE, value |-> ParseDigits(data_string, 0)]
    ELSE [ok |-> FALSE, value |-> "invalid digit found in string"]

\* UseEventSourceError
ErrEvent(t) == [kind |-> "Event", from |-> t]
ErrDeserialize(err) == [kind |-> "Deserialize", err |-> err]

VARIABLES
    \* UseEventSourceOptions and the build
    ssr,                \* cfg(feature = "ssr")
    immediate,
    reconnect_limit,
    named_events,
    \* the signals
    event,
    data,
    ready_state,
    event_source,
    error,
    \* the atomics
    explicitly_closed,
    retried,
    \* the environment
    sources,            \* the EventSource objects created so far, by id
    timers,             \* pending set_timeout(init) callbacks
    \* observation
    failed_calls,       \* calls of on_failed since the last open()
    scheduled,          \* set_timeout calls since the last open()
    terminal_errors,    \* error events with readyState CLOSED, handled while
                        \* explicitly_closed is false, since the last open()
    manual,             \* the user has called open() or close()
    closed_by_user,     \* close() has been called since the last open()
    last                \* the task that ran last

options == << ssr, immediate, reconnect_limit, named_events >>
vars == << ssr, immediate, reconnect_limit, named_events, event, data, ready_state,
           event_source, error, explicitly_closed, retried, sources, timers,
           failed_calls, scheduled, terminal_errors, manual, closed_by_user, last >>

\* The mutable state as one record, so that the closures compose as in the code.
St ==
    [ event |-> event, data |-> data, ready_state |-> ready_state,
      event_source |-> event_source, error |-> error,
      explicitly_closed |-> explicitly_closed, retried |-> retried,
      sources |-> sources, timers |-> timers, failed_calls |-> failed_calls,
      scheduled |-> scheduled, terminal_errors |-> terminal_errors ]

Become(m) ==
    /\ event' = m.event
    /\ data' = m.data
    /\ ready_state' = m.ready_state
    /\ event_source' = m.event_source
    /\ error' = m.error
    /\ explicitly_closed' = m.explicitly_closed
    /\ retried' = m.retried
    /\ sources' = m.sources
    /\ timers' = m.timers
    /\ failed_calls' = m.failed_calls
    /\ scheduled' = m.scheduled
    /\ terminal_errors' = m.terminal_errors

\* The state before `if immediate { open() }`.
Fresh ==
    [ event |-> None, data |-> None, ready_state |-> "Closed",
      event_source |-> None, error |-> None,
      explicitly_closed |-> FALSE, retried |-> 0,
      sources |-> << >>, timers |-> 0, failed_calls |-> 0,
      scheduled |-> 0, terminal_errors |-> 0 ]

\* EventSource::close() on the object t.
es_close(srcs, t) ==
    [srcs EXCEPT ![t] = [ready_state |-> CLOSED, close_called |-> TRUE]]

\* EventSource::new_with_event_source_init_dict
es_new == [ready_state |-> CONNECTING, close_called |-> FALSE]

\* set_data_from_string as it would be if a decoded value also cleared the error.
set_data_clearing_error(m, data_string) ==
    IF data_string # None
    THEN LET r == decode(data_string[1]) IN
         IF r.ok
         THEN [m EXCEPT !.data = Some(r.value), !.error = None]
         ELSE [m EXCEPT !.error = Some(ErrDeserialize(r.value))]
    ELSE m

\* set_data_from_string as it would be if a decode failure were treated as a
\* connection failure.
set_data_closing_on_error(m, data_string) ==
    IF data_string # None
    THEN LET r == decode(data_string[1]) IN
         IF r.ok
         THEN [m EXCEPT !.data = Some(r.value)]
         ELSE [m EXCEPT !.error = Some(ErrDeserialize(r.value)),
                        !.ready_state = "Closed"]
    ELSE m

set_data_from_string(m, data_string) ==
    IF data_string # None
    THEN LET r == decode(data_string[1]) IN
         IF r.ok
         THEN [m EXCEPT !.data = Some(r.value)]
         ELSE [m EXCEPT !.error = Some(ErrDeserialize(r.value))]
    ELSE m

\* close as it would be if the flag were stored outside the `if let`.
close_always_flags(m) ==
    IF m.event_source # None
    THEN [m EXCEPT !.sources = es_close(m.sources, m.event_source[1]),
                   !.event_source = None,
                   !.ready_state = "Closed",
                   !.explicitly_closed = TRUE]
    ELSE [m EXCEPT !.explicitly_closed = TRUE]

close(m) ==
    IF m.event_source # None
    THEN [m EXCEPT !.sources = es_close(m.sources, m.event_source[1]),
                   !.event_source = None,
                   !.ready_state = "Closed",
                   !.explicitly_closed = TRUE]
    ELSE m

\* init as it would be without its entry guard.
init_unguarded(m) ==
    [m EXCEPT !.sources = Append(m.sources, es_new),
              !.ready_state = "Connecting",
              !.event_source = Some(Len(m.sources) + 1)]

\* init as it would be if it stored the new object only in an empty signal.
init_keeps_handle(m) ==
    IF m.explicitly_closed
    THEN m
    ELSE [m EXCEPT !.sources = Append(m.sources, es_new),
                   !.ready_state = "Connecting",
                   !.event_source =
                       IF @ = None THEN Some(Len(m.sources) + 1) ELSE @]

init(m) ==
    IF m.explicitly_closed
    THEN m
    ELSE [m EXCEPT !.sources = Append(m.sources, es_new),
                   !.ready_state = "Connecting",
                   !.event_source = Some(Len(m.sources) + 1)]

on_open(m) ==
    [m EXCEPT !.ready_state = "Open", !.error = None]

\* The retry decision as it would be with <= for <.
may_retry_inclusive(retried_value) == retried_value <= reconnect_limit

\* The retry decision as it would be if the counter were not consulted.
may_retry_unbounded(retried_value) == reconnect_limit > 0

\* The retry decision of on_error, taken with the incremented counter.
may_retry(retried_value) == retried_value < reconnect_limit

\* on_error as it would be without the `reconnect_limit > 0` condition.
on_error_any_limit(m, t) ==
    LET m1 == [m EXCEPT !.ready_state = "Closed", !.error = Some(ErrEvent(t))] IN
    IF /\ m.sources[t].ready_state = CLOSED
       /\ ~m.explicitly_closed
    THEN LET retried_value == m.retried + 1
             m2 == [m1 EXCEPT !.sources = es_close(m.sources, t),
                              !.retried = retried_value]
         IN  IF may_retry(retried_value)
             THEN [m2 EXCEPT !.timers = @ + 1, !.scheduled = @ + 1]
             ELSE [m2 EXCEPT !.failed_calls = @ + 1]
    ELSE m1

\* on_error as it would be without the `es.ready_state() == 2` condition.
on_error_any_state(m, t) ==
    LET m1 == [m EXCEPT !.ready_state = "Closed", !.error = Some(ErrEvent(t))] IN
    IF /\ ~m.explicitly_closed
       /\ reconnect_limit > 0
    THEN LET retried_value == m.retried + 1
             m2 == [m1 EXCEPT !.sources = es_close(m.sources, t),
                              !.retried = retried_value]
         IN  IF may_retry(retried_value)
             THEN [m2 EXCEPT !.timers = @ + 1, !.scheduled = @ + 1]
             ELSE [m2 EXCEPT !.failed_calls = @ + 1]
    ELSE m1

on_error(m, t) ==
    LET m1 == [m EXCEPT !.ready_state = "Closed", !.error = Some(ErrEvent(t))] IN
    IF /\ m.sources[t].ready_state = CLOSED
       /\ ~m.explicitly_closed
       /\ reconnect_limit > 0
    THEN LET retried_value == m.retried + 1
             m2 == [m1 EXCEPT !.sources = es_close(m.sources, t),
                              !.retried = retried_value]
         IN  IF may_retry(retried_value)
             THEN [m2 EXCEPT !.timers = @ + 1, !.scheduled = @ + 1]
             ELSE [m2 EXCEPT !.failed_calls = @ + 1]
    ELSE m1

on_message(m, data_string) == set_data_from_string(m, data_string)

\* The named-event listener as it would be if it stored the event only when
\* its payload decodes.
on_named_event_decoded_only(m, name, data_string) ==
    set_data_from_string(
        IF data_string # None /\ decode(data_string[1]).ok
        THEN [m EXCEPT !.event = Some([name |-> name, data |-> data_string])]
        ELSE m,
        data_string)

on_named_event(m, name, data_string) ==
    set_data_from_string(
        [m EXCEPT !.event = Some([name |-> name, data |-> data_string])],
        data_string)

\* open as it would be without its call of close().
open_without_close(m) ==
    IF ssr
    THEN m
    ELSE init([m EXCEPT !.explicitly_closed = FALSE, !.retried = 0])

\* open as it would be if the client closure were also built for the server.
open_ignoring_ssr(m) ==
    init([close(m) EXCEPT !.explicitly_closed = FALSE, !.retried = 0])

open(m) ==
    IF ssr
    THEN m
    ELSE init([close(m) EXCEPT !.explicitly_closed = FALSE, !.retried = 0])

\* The end of construction as it would be if `immediate` were not consulted.
construct_always_opens(imm) == open(Fresh)

\* The end of construction: `if immediate { open() }`.
construct(imm) == IF imm THEN open(Fresh) ELSE Fresh

\* open() starts a new count of what is observed between two open() calls.
Observed(m) ==
    [m EXCEPT !.failed_calls = 0, !.scheduled = 0, !.terminal_errors = 0]

Task(op, t, arg) == [op |-> op, t |-> t, arg |-> arg]

\* -------------------------------------------------------------- behaviour
Init ==
    /\ ssr \in BOOLEAN
    /\ immediate \in BOOLEAN
    /\ reconnect_limit \in 0..MaxLimit
    /\ named_events \in { << >>, << "notice" >> }
    /\ LET m == construct(immediate) IN
       /\ event = m.event
       /\ data = m.data
       /\ ready_state = m.ready_state
       /\ event_source = m.event_source
       /\ error = m.error
       /\ explicitly_closed = m.explicitly_closed
       /\ retried = m.retried
       /\ sources = m.sources
       /\ timers = m.timers
       /\ failed_calls = m.failed_calls
       /\ scheduled = m.scheduled
       /\ terminal_errors = m.terminal_errors
    /\ manual = FALSE
    /\ closed_by_user = FALSE
    /\ last = Task("new", 0, None)

\* The user calls open().
Open ==
    /\ ssr \/ Len(sources) < MaxSources
    /\ Become(Observed(open(St)))
    /\ manual' = TRUE
    /\ closed_by_user' = FALSE
    /\ last' = Task("open", 0, None)
    /\ UNCHANGED options

\* The user calls close() (or the owner is cleaned up).
Close ==
    /\ Become(close(St))
    /\ manual' = TRUE
    /\ closed_by_user' = TRUE
    /\ last' = Task("close", 0, None)
    /\ UNCHANGED options

\* A pending set_timeout callback runs init.
TimerFire ==
    /\ timers > 0
    /\ explicitly_closed \/ Len(sources) < MaxSources
    /\ Become(init([St EXCEPT !.timers = @ - 1]))
    /\ last' = Task("timer", 0, None)
    /\ UNCHANGED << options, manual, closed_by_user >>

\* EventSource t announces its connection and fires `open`.
OnOpen(t) ==
    /\ sources[t].ready_state = CONNECTING
    /\ Become(on_open([St EXCEPT !.sources[t].ready_state = OPEN]))
    /\ last' = Task("on_open", t, None)
    /\ UNCHANGED << options, manual, closed_by_user >>

\* EventSource t fires `error`: after failing for good (terminal), or while
\* it re-establishes the connection by itself.
OnError(t, terminal) ==
    /\ sources[t].ready_state # CLOSED
    /\ LET rs == IF terminal THEN CLOSED ELSE CONNECTING
           m == [St EXCEPT !.sources[t].ready_state = rs,
                           !.terminal_errors =
                               IF terminal /\ ~explicitly_closed THEN @ + 1 ELSE @]
       IN  Become(on_error(m, t))
    /\ last' = Task("on_error", t, Some(terminal))
    /\ UNCHANGED << options, manual, closed_by_user >>

\* EventSource t dispatches a message of the default channel.
OnMessage(t, data_string) ==
    /\ sources[t].ready_state = OPEN
    /\ Become(on_message(St, data_string))
    /\ last' = Task("on_message", t, data_string)
    /\ UNCHANGED << options, manual, closed_by_user >>

\* EventSource t dispatches an event of a subscribed named channel.
OnNamedEvent(t, name, data_string) ==
    /\ sources[t].ready_state = OPEN
    /\ \E i \in 1..Len(named_events) : named_events[i] = name
    /\ Become(on_named_event(St, name, data_string))
    /\ last' = Task("on_named_event", t, data_string)
    /\ UNCHANGED << options, manual, closed_by_user >>

Next ==
    \/ Open
    \/ Close
    \/ TimerFire
    \/ \E t \in 1..Len(sources) : OnOpen(t)
    \/ \E t \in 1..Len(sources), terminal \in BOOLEAN : OnError(t, terminal)
    \/ \E t \in 1..Len(sources), d \in DataStrings : OnMessage(t, d)
    \/ \E t \in 1..Len(sources), n \in EventNames, d \in DataStrings :
          OnNamedEvent(t, n, d)

Spec == Init /\ [][Next]_vars

\* The manager left to itself: the user calls nothing after construction.
\* An EventSource may open and deliver events before it fails; the runs in
\* which none ever opens are among these.
NextAuto ==
    \/ TimerFire
    \/ \E t \in 1..Len(sources) : OnOpen(t)
    \/ \E t \in 1..Len(sources), terminal \in BOOLEAN : OnError(t, terminal)
    \/ \E t \in 1..Len(sources), d \in DataStrings : OnMessage(t, d)
    \/ \E t \in 1..Len(sources), n \in EventNames, d \in DataStrings :
          OnNamedEvent(t, n, d)

\* The event loop runs every pending timeout, and every EventSource that is
\* not CLOSED eventually fails for good.
FairAuto ==
    /\ WF_vars(TimerFire)
    /\ \A t \in 1..MaxSources : WF_vars(t <= Len(sources) /\ OnError(t, TRUE))

SpecAuto == Init /\ [][NextAuto]_vars /\ FairAuto

\* ------------------------------------------------------------ properties
Ids == 1..Len(sources)
Live(t) == sources[t].ready_state # CLOSED
LiveSources == {t \in Ids : Live(t)}
Min(a, b) == IF a < b THEN a ELSE b

\* C1: in every reachable state at most one EventSource created by the
\* manager is live (created and not yet closed).
C1_AtMostOneLive == Cardinality(LiveSources) <= 1

C3_FailedOnceAtLimit ==
    (~ssr /\ reconnect_limit > 0)
        => failed_calls = (IF terminal_errors >= reconnect_limit THEN 1 ELSE 0)

\* C4: once on_failed has been called, every task other than a manual open()
\* leaves ConnectionState Closed and creates no EventSource.
C4_InertAfterExhaustion ==
    [][(failed_calls > 0 /\ last'.op # "open")
          => (ready_state' = "Closed" /\ Len(sources') = Len(sources))]_vars

\* C5: a timer that fires after close(), with no open() since, creates no
\* EventSource and changes no observable; the handle stays absent.
C5_TimerAfterCloseIsNoOp ==
    [][(last'.op = "timer" /\ closed_by_user)
          => /\ sources' = sources
             /\ event_source' = None
             /\ UNCHANGED << event, data, ready_state, event_source, error >>
             /\ UNCHANGED << explicitly_closed, retried >>]_vars

C5_Witness ==
    /\ last.op = "timer" /\ closed_by_user
    /\ event_source = None /\ ready_state = "Closed" /\ Len(sources) > 0

\* C6: with reconnect_limit = 0 an error event only sets ConnectionState to
\* Closed and LatestError to that error: no retry is scheduled, close() is
\* called on no EventSource, the counter stays and on_failed is not called.
C6_LimitZeroErrorEffects ==
    [][(reconnect_limit = 0 /\ last'.op = "on_error")
          => /\ ready_state' = "Closed"
             /\ error' = Some(ErrEvent(last'.t))
             /\ timers' = timers /\ scheduled' = scheduled
             /\ retried' = retried /\ failed_calls' = failed_calls
             /\ Len(sources') = Len(sources)
             /\ \A t \in Ids : sources'[t].close_called = sources[t].close_called
             /\ UNCHANGED << event, data, event_source, explicitly_closed >>]_vars

C6_Witness ==
    /\ reconnect_limit = 0 /\ last.op = "on_error" /\ last.arg = Some(TRUE)
    /\ ready_state = "Closed" /\ error = Some(ErrEvent(last.t))

\* C7: open() closes the EventSource held before it and creates a new one; on
\* return attempts = 0, explicitly_closed = false, ConnectionState is
\* Connecting and the handle holds the EventSource just created.
C7_OpenResets ==
    [][(~ssr /\ last'.op = "open")
          => /\ event_source # None => sources'[event_source[1]].ready_state = CLOSED
             /\ Len(sources') = Len(sources) + 1
             /\ sources'[Len(sources')] = es_new
             /\ event_source' = Some(Len(sources'))
             /\ retried' = 0
             /\ explicitly_closed' = FALSE
             /\ ready_state' = "Connecting"]_vars

\* open() was called while an EventSource was held, and closed it.
C7_Witness ==
    /\ ~ssr /\ last.op = "open" /\ Len(sources) >= 2
    /\ sources[Len(sources) - 1] = [ready_state |-> CLOSED, close_called |-> TRUE]
    /\ event_source = Some(Len(sources)) /\ retried = 0 /\ ~explicitly_closed

\* C8: close() with a handle closes that EventSource, clears the handle, sets
\* ConnectionState Closed and explicitly_closed true; close() without a handle
\* changes nothing; so a second close() changes nothing.
C8_CloseIdempotent ==
    [][(last'.op = "close")
          => /\ IF event_source # None
                THEN /\ sources' = es_close(sources, event_source[1])
                     /\ event_source' = None
                     /\ ready_state' = "Closed"
                     /\ explicitly_closed' = TRUE
                ELSE UNCHANGED << sources, event_source, ready_state,
                                  explicitly_closed >>
             /\ UNCHANGED << event, data, error, retried, timers >>
             /\ close(close(St)) = close(St)]_vars

C8_Witness ==
    /\ last.op = "close" /\ event_source = None /\ explicitly_closed
    /\ ready_state = "Closed"
    /\ \E t \in Ids : sources[t].close_called

\* C9 as stated: a present handle refers to the single live EventSource.
C9_HandleIsLive ==
    event_source # None => LiveSources = {event_source[1]}

\* C9 as amended: a present handle refers to the EventSource created last,
\* which may already be closed.
C9_HandleIsNewest ==
    event_source # None => (Len(sources) > 0 /\ event_source[1] = Len(sources))

\* The handle refers to an EventSource the error handler has closed.
C9_Witness ==
    /\ event_source # None
    /\ Len(sources) >= 2
    /\ sources[event_source[1]].close_called
    /\ last.op = "on_error"

\* C10: a message whose payload decodes sets LatestValue to the decoded value
\* and leaves LatestError; one whose payload does not decode sets LatestError
\* to the decode error and leaves LatestValue.
C10_DecodeFrame ==
    [][(last'.op = "on_message" /\ last'.arg # None)
          => LET r == decode(last'.arg[1]) IN
             /\ r.ok => (data' = Some(r.value) /\ error' = error)
             /\ ~r.ok => (error' = Some(ErrDeserialize(r.value)) /\ data' = data)
             /\ last'.arg = Some(<<"4", "2">>) => data' = Some(42)
             /\ last'.arg = Some(<<"x">>) => error'[1].kind = "Deserialize"]_vars

\* A payload that does not decode arrived after one that did.
C10_Witness ==
    /\ last.op = "on_message" /\ last.arg = Some(<<"x">>)
    /\ data = Some(42) /\ error = Some(ErrDeserialize(decode(<<"x">>).value))

\* C11: in the server build no sequence of open() and close() calls (the open()
\* of an immediate construction included) creates an EventSource or changes
\* state: ConnectionState is Closed and value, event, error and handle absent.
C11_SsrInert ==
    ssr => /\ ready_state = "Closed"
           /\ data = None /\ event = None /\ error = None /\ event_source = None
           /\ sources = << >> /\ timers = 0
           /\ ~explicitly_closed /\ retried = 0

\* open() has been called in the server build after an immediate construction.
C11_Witness ==
    ssr /\ immediate /\ manual /\ last.op = "open" /\ ready_state = "Closed"

\* C12: constructed with immediate = false, ConnectionState is Closed, the
\* handle absent and no EventSource exists until the first open(); constructed
\* with immediate = true (client build), exactly one EventSource exists, the
\* handle holds it and ConnectionState is Connecting.
C12_Immediate ==
    /\ [](last.op = "new" =>
            IF immediate /\ ~ssr
            THEN /\ sources = << es_new >> /\ event_source = Some(1)
                 /\ ready_state = "Connecting"
            ELSE /\ sources = << >> /\ event_source = None
                 /\ ready_state = "Closed")
    /\ [][(~immediate /\ sources = << >> /\ last'.op # "open")
             => /\ sources' = << >> /\ event_source' = None
                /\ ready_state' = "Closed"]_vars

\* Constructed with immediate = false, then close() and no open() yet.
C12_Witness ==
    /\ ~ssr /\ ~immediate /\ last.op = "close"
    /\ sources = << >> /\ event_source = None /\ ready_state = "Closed"

\* C13: an error event of an EventSource that is not CLOSED (it retries by
\* itself), or any error event while explicitly_closed is true, sets
\* ConnectionState Closed and LatestError, and nothing else: attempts stay,
\* close() is called on no EventSource, no retry is scheduled, on_failed is
\* not called.
C13_NoTakeOver ==
    [][(last'.op = "on_error" /\ (last'.arg = Some(FALSE) \/ explicitly_closed))
          => /\ ready_state' = "Closed"
             /\ error' = Some(ErrEvent(last'.t))
             /\ retried' = retried
             /\ timers' = timers /\ scheduled' = scheduled
             /\ failed_calls' = failed_calls
             /\ Len(sources') = Len(sources)
             /\ \A t \in Ids : sources'[t].close_called = sources[t].close_called
             /\ last'.arg = Some(FALSE) => sources'[last'.t].ready_state = CONNECTING
             /\ UNCHANGED << event, data, event_source, explicitly_closed >>]_vars

\* A non-terminal error was handled while a retry would have been allowed.
C13_Witness ==
    /\ last.op = "on_error" /\ last.arg = Some(FALSE)
    /\ reconnect_limit > 0 /\ ~explicitly_closed
    /\ sources[last.t] = es_new /\ event_source = Some(last.t)
    /\ ready_state = "Closed" /\ timers = 0 /\ retried = 0

\* C14: handling a message or a named event, whether its payload decodes or
\* not, leaves ConnectionState, attempts, explicitly_closed and the handle,
\* schedules no retry and does not call on_failed.
C14_MessageFrame ==
    [][(last'.op \in {"on_message", "on_named_event"})
          => UNCHANGED << ready_state, retried, explicitly_closed, event_source,
                          sources, timers, scheduled, failed_calls >>]_vars

\* A named event whose payload does not decode was handled while Open.
C14_Witness ==
    /\ last.op = "on_named_event" /\ last.arg = Some(<<"x">>)
    /\ ready_state = "Open" /\ error # None /\ error[1].kind = "Deserialize"

\* C15: an event of a subscribed named channel stores the raw event (also when
\* its payload does not decode) and then updates LatestValue and LatestError
\* as a default-channel message with that payload would; a default-channel
\* message leaves LatestNamedEvent; on every EventSource init created.
C15_NamedEvent ==
    [][/\ last'.op = "on_named_event"
            => /\ \E n \in EventNames :
                     event' = Some([name |-> n, data |-> last'.arg])
               /\ data' = on_message(St, last'.arg).data
               /\ error' = on_message(St, last'.arg).error
       /\ last'.op = "on_message" => event' = event]_vars

\* A named event that does not decode arrived on an EventSource created by a
\* retry.
C15_Witness ==
    /\ last.op = "on_named_event" /\ last.arg = Some(<<"x">>)
    /\ ~manual /\ scheduled >= 1 /\ last.t = Len(sources) /\ last.t >= 2
    /\ event = Some([name |-> "notice", data |-> Some(<<"x">>)])

\* C16: an open event sets ConnectionState Open and clears LatestError but
\* leaves attempts; attempts never decrease except by a manual open(); so with
\* reconnect_limit = L > 0 at most L terminal failures are handled after one
\* open(), successful reconnections in between included.
C16_AttemptsAccumulate ==
    [][/\ last'.op = "on_open"
            => /\ ready_state' = "Open" /\ error' = None
               /\ retried' = retried
       /\ last'.op # "open" => retried' >= retried
       /\ reconnect_limit > 0 => terminal_errors' <= reconnect_limit]_vars

\* The parts of C16 about the open event and the monotony of attempts.
C16_OpenKeepsAttempts ==
    [][/\ last'.op = "on_open"
            => /\ ready_state' = "Open" /\ error' = None
               /\ retried' = retried
       /\ last'.op # "open" => retried' >= retried]_vars

\* C17: after close() and until the next open(), no EventSource created by the
\* manager is live and ConnectionState is Closed.
C17_ClosedStaysClosed ==
    closed_by_user => (LiveSources = {} /\ ready_state = "Closed")

\* C18: with reconnect_limit = L > 0 attempts never exceed L, and a retry
\* timer creates no EventSource while attempts >= L.
C18_AttemptsBounded ==
    [][reconnect_limit > 0
          => /\ retried' <= reconnect_limit
             /\ (last'.op = "timer" /\ retried >= reconnect_limit)
                   => Len(sources') = Len(sources)]_vars

\* C20: ConnectionState Open implies that the handle is present.
C20_OpenHasHandle ==
    ready_state = "Open" => event_source # None

\* C19: constructed with immediate = true and reconnect_limit = L > 0 (client
\* build), with fair timers, no call by the user and every EventSource
\* eventually failing for good (whether or not it opened before), the manager
\* eventually calls on_failed and stays quiescent: ConnectionState Closed, no
\* live EventSource, no pending timer.
C19_EventuallyQuiescent ==
    (immediate /\ ~ssr /\ reconnect_limit > 0)
        => <>[](/\ failed_calls = 1
                /\ ready_state = "Closed"
                /\ LiveSources = {}
                /\ timers = 0)

\* Limit 3: the third EventSource has failed and nothing is left to run.
C19_Witness ==
    /\ immediate /\ ~ssr /\ reconnect_limit = 3 /\ ~manual
    /\ Len(sources) = 3 /\ LiveSources = {} /\ timers = 0
    /\ failed_calls = 1 /\ ready_state = "Closed"

====
